---- MODULE Spec2Model ----
(***************************************************************************)
(* StyleLicense: job orchestration and token settlement.                   *)
(*                                                                         *)
(* Backend part: the token ledger (TokenService), generation submission    *)
(* (GenerationViewSet.create) and the inference-failed webhook, run by     *)
(* concurrent request handlers against one database with row locks and     *)
(* transactions whose writes become visible at commit.                     *)
(* Worker part: the training and inference consumers' on_message loops.    *)
(***************************************************************************)
EXTENDS Integers, Sequences, FiniteSets, Bags, TLC

----------------------------------------------------------------------------
(* Bounds of the model *)

NumUsers == 1
NumWorkers == 2
MaxRequests == 2
MaxGenerations == 1
MaxMessages == 2
MaxSteps == 101
MaxEpochs == 3
NumAccounts == 2
MaxPublishes == 3

Users == 1..NumUsers
\* the accounts of the ledger when it is exercised on its own
Accounts == 1..NumAccounts
Workers == 1..NumWorkers
GenIds == 1..MaxGenerations
StyleIds == {1, 2, 3, 4}

\* amounts passed to the TokenService primitives by their callers
Amounts == [add_tokens |-> {-50, 0, 100}, consume_tokens |-> {-50, 0, 50, 100},
            refund_tokens |-> {-50, 0, 50}]

----------------------------------------------------------------------------
(* Program constants and schema *)

\* GenerationViewSet.COST_MAP
COST_MAP == [r \in {"1:1", "2:2", "1:2"} |->
               CASE r = "1:1" -> 50 [] r = "2:2" -> 75 [] OTHER -> 60]

\* aspect_ratio values a client may post ("9:9" stands for any other value)
AspectRatios == {"1:1", "2:2", "1:2", "9:9"}

\* attributes of a Generation model instance
GenerationFields ==
  {"id", "user", "style", "aspect_ratio", "seed", "consumed_tokens",
   "result_url", "status", "generation_progress", "description",
   "like_count", "comment_count", "is_public", "created_at", "updated_at"}

\* attributes of a Style model instance (fields and reverse relations)
StyleFields ==
  {"id", "artist", "name", "description", "thumbnail_url", "model_path",
   "training_status", "training_log_path", "training_metric",
   "training_progress", "license_type", "valid_from", "valid_to",
   "generation_cost_tokens", "usage_count", "is_flagged", "is_active",
   "created_at", "updated_at", "artworks", "style_tags", "generations"}

\* the attribute training_complete and training_failed read the recipient of
\* the notification from
RecipientAttr == "user"

\* keyword parameters accepted by RabbitMQService.send_training_task
SendTrainingTaskParams ==
  {"style_id", "image_paths", "num_epochs", "webhook_url"}

\* keywords StyleViewSet.create passes to send_training_task
StyleSendKwargs == {"style_id", "image_paths", "num_epochs"}

\* keyword parameters accepted by RabbitMQService.send_generation_task
SendGenerationTaskParams ==
  {"generation_id", "style_id", "lora_path", "prompt", "aspect_ratio",
   "seed", "webhook_url"}

\* keyword arguments GenerationViewSet.create passes to send_generation_task
CreateSendKwargs ==
  {"generation_id", "style_id", "lora_path", "prompt", "aspect_ratio",
   "seed", "signature_path"}

\* the attribute inference_failed reads for the refund amount
RefundAmountAttr == "cost"

\* the attribute inference_failed writes the failure information to
MetadataAttr == "metadata"

\* amount of the welcome bonus GoogleCallbackView grants to a new user
WelcomeBonus == 100

\* text is a sequence of pieces: the scheme prefix "Bearer " is one piece, a
\* blank is one piece, and "s" and "x" stand for runs of other characters
SharedSecret == <<"s">>

\* CheckConstraint token_balance_non_negative on users
token_balance_non_negative(b) == b >= 0

----------------------------------------------------------------------------
VARIABLES
  token_balance,   \* users.token_balance, committed
  transactions,    \* rows of the transactions table, committed
  generations,     \* rows of the generations table, committed
  genSeq,          \* last value of the generations id sequence
  styles,          \* rows of the styles table
  userLock,        \* holder of each user row lock (0 = free)
  genLock,         \* holder of each generation row lock (0 = free)
  queue,           \* broker queues: queue name -> sequence of envelopes
  req,             \* per request handler: the request it is serving
  nextReq,         \* number of requests issued so far, plus one
  last,            \* kind and response of the request that returned last
  credited,        \* per user: sum of amounts of committed credits/refunds
  debited,         \* per user: sum of amounts of committed debits
  run,             \* per user: the current run of equal consume_tokens calls
  cons,            \* per consumer: position in on_message and its message
  trace,           \* per consumer: what it did for the current delivery
  published,       \* number of envelopes put on the queues by publishers
  notifications,   \* rows of the notifications table
  INTERNAL_API_TOKEN,  \* settings.INTERNAL_API_TOKEN, as the process loaded it
  execution,          \* the engine run in progress and its progress webhooks
  rabbitmq            \* the RabbitMQService singleton and its get_channel call

vars == <<token_balance, transactions, generations, genSeq, styles, userLock,
          genLock, queue, req, nextReq, last, credited, debited, run,
          cons, trace, published, notifications, INTERNAL_API_TOKEN,
          execution, rabbitmq>>

\* everything but the RabbitMQService object
jobVars == <<token_balance, transactions, generations, genSeq, styles,
             userLock, genLock, queue, req, nextReq, last, credited, debited,
             run, cons, trace, published, notifications, INTERNAL_API_TOKEN,
             execution>>

dbVars == <<token_balance, transactions, generations>>

workerVars == <<cons, trace, published, execution, rabbitmq>>

hookVars == <<notifications, INTERNAL_API_TOKEN>>

backendVars == <<token_balance, transactions, generations, genSeq, styles,
                 userLock, genLock, req, nextReq, last, credited, debited,
                 run, notifications, INTERNAL_API_TOKEN, rabbitmq>>

NoGeneration ==
  [status |-> "absent", user |-> 0, style |-> 0, consumed_tokens |-> 0,
   generation_progress |-> "null", result_url |-> "null",
   error_code |-> "null"]

Idle ==
  [pc |-> "idle", kind |-> "none", user |-> 0, amount |-> 0, style |-> 0,
   gen |-> 0, broker |-> FALSE, memo |-> <<>>, txUser |-> {}, txTrans |-> {},
   txGen |-> {}]

DeadRun == [amt |-> 0, bal |-> 0, n |-> 0, ok |-> 0, insufficient |-> 0]

QueueNames == {"model_training", "image_generation"}

Consumers == {"training", "inference"}

NoEnvelope ==
  [type |-> "none", data |-> [id |-> 0, style_id |-> 0, images |-> 0],
   redelivered |-> FALSE]

Waiting == [pc |-> "idle", msg |-> NoEnvelope, attempt |-> 0]

\* no engine execution in progress
NoEngine ==
  [consumer |-> "none", total |-> 0, next |-> 0, sent |-> 0, percents |-> {}]

\* RabbitMQService after __init__, no get_channel call running: no
\* connection, nothing published
NoChannel ==
  [pc |-> "idle", connection |-> "none", retry_count |-> 0, attempts |-> 0,
   thrown |-> FALSE, result |-> "", calls |-> 0, created |-> 0,
   publishes |-> 0, clean |-> TRUE]

\* reason="Welcome bonus for new user" (a memo is a sequence of words)
BonusReason == <<"Welcome", "bonus", "for new user">>

\* the reason each caller of the ledger passes, stored as the memo
Reason(kind) ==
  CASE kind = "add_tokens" -> <<"Token", "purchase">>
    [] kind \in {"consume_tokens", "create"} -> <<"Image", "generation">>
    [] OTHER -> <<"Generation", "failed">>

\* the ledger row of the welcome bonus of user u
WelcomeBonusRow(u) ==
  [sender |-> 0, receiver |-> u, amount |-> WelcomeBonus,
   transaction_type |-> "purchase", status |-> "completed",
   related_generation |-> 0, refunded |-> FALSE, memo |-> BonusReason]

\* no row of the styles table with this id
NoStyle ==
  [training_status |-> "absent", artist |-> 0, model_path |-> "",
   training_progress |-> "null"]

\* the styles that exist before any request: one trained and usable, one not
\* trained, one marked completed whose model_path was never filled in
\* (model_path is nullable); id 4 is the id the next created style gets
SeededStyle(s) ==
  IF s = 1 THEN [NoStyle EXCEPT !.training_status = "completed",
                                !.artist = 1, !.model_path = "gs://m"]
  ELSE IF s = 2 THEN [NoStyle EXCEPT !.training_status = "pending",
                                     !.artist = 1]
  ELSE IF s = 3 THEN [NoStyle EXCEPT !.training_status = "completed",
                                     !.artist = 1]
  ELSE NoStyle

\* every account was either created by the OAuth callback, which grants the
\* welcome bonus through add_tokens, or created without it (balance 0)
InitStateOf(rows) ==
  /\ \E granted \in SUBSET rows :
       /\ token_balance = [u \in rows |->
                             IF u \in granted THEN WelcomeBonus ELSE 0]
       /\ transactions = SetToBag({WelcomeBonusRow(u) : u \in granted})
       /\ credited = [u \in rows |->
                        IF u \in granted THEN WelcomeBonus ELSE 0]
  /\ styles = [s \in StyleIds |-> SeededStyle(s)]
  /\ userLock = [u \in rows |-> 0]
  /\ genLock = [g \in GenIds |-> 0]
  /\ queue = [q \in QueueNames |-> <<>>]
  /\ req = [w \in Workers |-> Idle]
  /\ nextReq = 1
  /\ last = [kind |-> "none", response |-> ""]
  /\ debited = [u \in rows |-> 0]
  /\ run = [u \in rows |-> DeadRun]
  /\ cons = [c \in Consumers |-> Waiting]
  /\ trace = [c \in Consumers |-> <<>>]
  /\ published = 0
  /\ notifications = {}
  /\ execution = NoEngine
  /\ rabbitmq = NoChannel

InitState == InitStateOf(Users)

\* no generation has been requested or seeded
InitTables ==
  /\ InitState
  /\ generations = [g \in GenIds |-> NoGeneration]
  /\ genSeq = 0

\* the deployment the workers are configured for: the shared secret is set
Init ==
  /\ InitTables
  /\ INTERNAL_API_TOKEN = SharedSecret

----------------------------------------------------------------------------
(* Helpers *)

Free(w) == req[w].pc = "idle"

\* a new request is served by the first free handler
Accepts(w) == Free(w) /\ \A x \in Workers : Free(x) => w <= x

\* what the caller of a returned request saw
Returned(kind, resp) == [kind |-> kind, response |-> resp]

\* a request of user u holds or waits for u's row
InFlight(u) ==
  \E w \in Workers : req[w].user = u /\ req[w].pc \in {"lock_user", "publish", "commit"}

Transaction(r, sender, receiver, type, gen, refunded) ==
  [sender |-> sender, receiver |-> receiver,
   amount |-> r.amount, transaction_type |-> type, status |-> "completed",
   related_generation |-> gen, refunded |-> refunded, memo |-> r.memo]

\* the rows a transaction has written, not yet visible to others
Writes(r) == [txUser |-> r.txUser, txTrans |-> r.txTrans, txGen |-> r.txGen]

\* variant: the exception is swallowed inside the atomic block
RollbackKeepsWrites(r) == Writes(r)

\* leaving transaction.atomic() through an exception discards its writes
Rollback(r) == [txUser |-> {}, txTrans |-> {}, txGen |-> {}]

\* the tables after the end of a transaction that leaves the writes tx
\* variant: the saved balance is written to every row of the table
ApplyUsersToAll(tx) ==
  [x \in DOMAIN token_balance |->
     IF tx.txUser # {}
     THEN (CHOOSE p \in tx.txUser : TRUE)[2]
     ELSE token_balance[x]]

ApplyUsers(tx) ==
  [x \in DOMAIN token_balance |->
     IF \E p \in tx.txUser : p[1] = x
     THEN (CHOOSE p \in tx.txUser : p[1] = x)[2]
     ELSE token_balance[x]]

\* variant: a row equal to a stored row is refused (a unique constraint)
ApplyTransactionsUnique(tx) ==
  transactions (+)
    SetToBag({e \in tx.txTrans : ~BagIn(e, transactions)})

ApplyTransactions(tx) == transactions (+) SetToBag(tx.txTrans)

ApplyGenerations(tx) ==
  [g \in GenIds |->
     IF \E p \in tx.txGen : p[1] = g
     THEN (CHOOSE p \in tx.txGen : p[1] = g)[2]
     ELSE generations[g]]

\* variant: the transaction ends and its row lock stays
ReleaseUserLeaks(w) == userLock

\* the row locks of a transaction go with its commit or rollback
ReleaseUser(w) ==
  [u \in DOMAIN userLock |-> IF userLock[u] = w THEN 0 ELSE userLock[u]]
ReleaseGen(w) == [g \in GenIds |-> IF genLock[g] = w THEN 0 ELSE genLock[g]]


----------------------------------------------------------------------------
(* Token ledger: TokenService *)

\* variant: only a negative amount is refused
AmountRejectedIfNegative(amount) == amount < 0

\* "if amount <= 0: raise ValueError", before the row is locked
AmountRejected(amount) == amount <= 0

\* variant: a plain get() without select_for_update
RowAvailableNoLock(holder, w) == TRUE

\* User.objects.select_for_update().get(...): the row can be locked by
\* handler w when no other transaction holds it
RowAvailable(holder, w) == holder = 0

\* body of add_tokens on the locked row: outcome and balance to save
add_tokens(bal, amount) ==
  IF AmountRejected(amount) THEN [raise |-> "ValueError", bal |-> bal]
  ELSE IF ~token_balance_non_negative(bal + amount)
       THEN [raise |-> "IntegrityError", bal |-> bal]
  ELSE [raise |-> "", bal |-> bal + amount]

\* variant: no balance check, on a table without the check constraint
consume_tokens_unchecked(bal, amount) ==
  IF AmountRejected(amount) THEN [raise |-> "ValueError", bal |-> bal]
  ELSE [raise |-> "", bal |-> bal - amount]

\* variant: the balance check rejects a debit of the whole balance
consume_tokens_strict(bal, amount) ==
  IF AmountRejected(amount) THEN [raise |-> "ValueError", bal |-> bal]
  ELSE IF bal <= amount THEN [raise |-> "Insufficient", bal |-> bal]
  ELSE [raise |-> "", bal |-> bal - amount]

\* body of consume_tokens on the locked row
consume_tokens(bal, amount) ==
  IF AmountRejected(amount) THEN [raise |-> "ValueError", bal |-> bal]
  ELSE IF bal < amount THEN [raise |-> "Insufficient", bal |-> bal]
  ELSE IF ~token_balance_non_negative(bal - amount)
       THEN [raise |-> "IntegrityError", bal |-> bal]
  ELSE [raise |-> "", bal |-> bal - amount]

\* variant: the refund row is written but the balance is not raised
refund_tokens_no_credit(bal, amount) ==
  IF AmountRejected(amount) THEN [raise |-> "ValueError", bal |-> bal]
  ELSE [raise |-> "", bal |-> bal]

\* body of refund_tokens on the locked row
refund_tokens(bal, amount) ==
  IF AmountRejected(amount) THEN [raise |-> "ValueError", bal |-> bal]
  ELSE IF ~token_balance_non_negative(bal + amount)
       THEN [raise |-> "IntegrityError", bal |-> bal]
  ELSE [raise |-> "", bal |-> bal + amount]

Debits == {"consume_tokens", "create"}
Credits == {"add_tokens", "refund_tokens", "inference_failed"}
Direct == {"add_tokens", "consume_tokens", "refund_tokens"}

\* variant: every row is written with the user as sender
LedgerEntryAsSender(r) ==
  Transaction(r, r.user, 0,
              IF r.kind \in Debits THEN "consume" ELSE "purchase", 0, FALSE)

\* the ledger row each operation inserts
LedgerEntry(r) ==
  CASE r.kind = "add_tokens" ->
         Transaction(r, 0, r.user, "purchase", 0, FALSE)
    [] r.kind \in Debits ->
         Transaction(r, r.user, 0, "consume", 0, FALSE)
    [] OTHER ->
         Transaction(r, 0, r.user, "generation", r.gen, TRUE)

\* variant: create answers every exception with 500
ErrorResponseAll500(kind, raise) ==
  IF kind \in Direct THEN raise ELSE "500"

\* response of the caller when the ledger operation raised
\* (create: except ValueError -> 402, except Exception -> 500;
\*  inference_failed: only Generation.DoesNotExist is caught)
ErrorResponse(kind, raise) ==
  CASE kind \in Direct -> raise
    [] kind = "create" ->
         IF raise \in {"ValueError", "Insufficient"} THEN "402" ELSE "500"
    [] OTHER -> "500"

\* a consume_tokens call joins or starts the run of user u
RunOnCall(u, kind, amount) ==
  IF kind = "consume_tokens" /\ ~AmountRejected(amount)
  THEN IF run[u].amt = amount THEN [run[u] EXCEPT !.n = @ + 1]
       ELSE IF ~InFlight(u)
            THEN [amt |-> amount, bal |-> token_balance[u], n |-> 1,
                  ok |-> 0, insufficient |-> 0]
            ELSE DeadRun
  ELSE DeadRun

\* handler w takes the next call
CallAllowed(w) == Accepts(w) /\ nextReq <= MaxRequests

\* the call kind(user_id=u, amount=a, ...) up to the select_for_update
CallTokenServiceWith(w, kind, u, a) ==
  /\ CallAllowed(w)
  /\ req' = [req EXCEPT ![w] =
       IF AmountRejected(a) THEN Idle
       ELSE [Idle EXCEPT !.pc = "lock_user", !.kind = kind,
                         !.user = u, !.amount = a, !.memo = Reason(kind)]]
  /\ last' = IF AmountRejected(a) THEN Returned(kind, "ValueError")
             ELSE last
  /\ run' = [run EXCEPT ![u] = RunOnCall(u, kind, a)]
  /\ nextReq' = nextReq + 1
  /\ UNCHANGED <<workerVars, hookVars, dbVars, genSeq, styles, userLock,
                 genLock, queue, credited, debited>>

\* a caller invokes add_tokens / consume_tokens / refund_tokens directly
CallTokenService(w) ==
  /\ CallAllowed(w)
  /\ \E kind \in Direct, u \in Users :
     \E a \in Amounts[kind] : CallTokenServiceWith(w, kind, u, a)

\* select_for_update on the user row, then the body of the ledger
\* operation inside the open transaction (and, for create and
\* inference_failed, the statements that follow it up to the next
\* blocking call)
SelectUserForUpdate(w) ==
  LET r == req[w]
      u == r.user
      bal == token_balance[u]
      out == CASE r.kind = "add_tokens" -> add_tokens(bal, r.amount)
               [] r.kind \in Debits -> consume_tokens(bal, r.amount)
               [] OTHER -> refund_tokens(bal, r.amount)
      metadataMissing ==
        r.kind = "inference_failed" /\ MetadataAttr \notin GenerationFields
  IN
  /\ r.pc = "lock_user"
  /\ RowAvailable(userLock[u], w)
  /\ IF out.raise # "" \/ metadataMissing
     THEN \* exception: the transaction is rolled back, locks released
          /\ req' = [req EXCEPT ![w] = Idle]
          /\ last' = Returned(r.kind,
                 IF out.raise # "" THEN ErrorResponse(r.kind, out.raise)
                 ELSE "500")
          /\ userLock' = ReleaseUser(w)
          /\ genLock' = ReleaseGen(w)
          /\ genSeq' = genSeq
          /\ run' = [run EXCEPT ![u] =
                 IF r.kind = "consume_tokens" /\ run[u].amt = r.amount
                 THEN [@ EXCEPT !.insufficient = @ + 1] ELSE @]
     ELSE /\ userLock' = [userLock EXCEPT ![u] = w]
          /\ genLock' = genLock
          /\ run' = run
          /\ last' = last
          /\ CASE r.kind = "create" ->
                    \* Generation.objects.create(status="queued", ...)
                    /\ genSeq' = genSeq + 1
                    /\ req' = [req EXCEPT ![w] =
                         [r EXCEPT !.pc = "publish", !.gen = genSeq + 1,
                            !.txUser = {<<u, out.bal>>},
                            !.txTrans = {LedgerEntry(r)},
                            !.txGen = {<<genSeq + 1,
                               [NoGeneration EXCEPT !.status = "queued",
                                  !.user = u, !.style = r.style,
                                  !.consumed_tokens = r.amount,
                                  !.generation_progress = "prompt_tags"]>>}]]
               [] r.kind = "inference_failed" ->
                    \* status = "failed", progress cleared, error stored
                    /\ genSeq' = genSeq
                    /\ req' = [req EXCEPT ![w] =
                         [r EXCEPT !.pc = "commit",
                            !.txUser = {<<u, out.bal>>},
                            !.txTrans = {LedgerEntry(r)},
                            !.txGen = {<<r.gen,
                               [generations[r.gen] EXCEPT !.status = "failed",
                                  !.generation_progress = "null",
                                  !.error_code = "GENERATION_ERROR"]>>}]]
               [] OTHER ->
                    /\ genSeq' = genSeq
                    /\ req' = [req EXCEPT ![w] =
                         [r EXCEPT !.pc = "commit",
                            !.txUser = {<<u, out.bal>>},
                            !.txTrans = {LedgerEntry(r)}]]
  /\ UNCHANGED <<workerVars, hookVars, dbVars, styles, queue, nextReq,
                 credited, debited>>

\* the outermost atomic block exits normally: the writes of the
\* transaction become visible and its row locks are released
Commit(w) ==
  LET r == req[w]
      u == r.user
  IN
  /\ r.pc = "commit"
  /\ token_balance' = ApplyUsers(Writes(r))
  /\ transactions' = ApplyTransactions(Writes(r))
  /\ generations' = ApplyGenerations(Writes(r))
  /\ userLock' = ReleaseUser(w)
  /\ genLock' = ReleaseGen(w)
  /\ req' = [req EXCEPT ![w] = Idle]
  /\ last' = Returned(r.kind, CASE r.kind \in Direct -> "ok"
                                [] r.kind = "create" -> "201"
                                [] OTHER -> "200")
  /\ credited' = [credited EXCEPT ![u] =
        IF r.kind \in Credits THEN @ + r.amount ELSE @]
  /\ debited' = [debited EXCEPT ![u] =
        IF r.kind \in Debits THEN @ + r.amount ELSE @]
  /\ run' = [run EXCEPT ![u] =
        IF r.kind = "consume_tokens" /\ run[u].amt = r.amount
        THEN [@ EXCEPT !.ok = @ + 1] ELSE @]
  /\ UNCHANGED <<workerVars, hookVars, genSeq, styles, queue, nextReq>>

\* the ledger on its own: the calls are made for any of the accounts
CallLedger(w) ==
  /\ CallAllowed(w)
  /\ \E kind \in Direct, u \in Accounts :
     \E a \in Amounts[kind] : CallTokenServiceWith(w, kind, u, a)

InitLedger ==
  /\ InitStateOf(Accounts)
  /\ generations = [g \in GenIds |-> NoGeneration]
  /\ genSeq = 0
  /\ INTERNAL_API_TOKEN = SharedSecret

NextLedger ==
  \/ \E w \in Workers : CallLedger(w)
  \/ \E w \in Workers : SelectUserForUpdate(w)
  \/ \E w \in Workers : Commit(w)

SpecLedger == InitLedger /\ [][NextLedger]_vars

----------------------------------------------------------------------------
(* Welcome bonus: GoogleCallbackView._grant_welcome_bonus *)

\* str.lower() on a word
Lower(word) ==
  CASE word = "Welcome" -> "welcome"
    [] word = "WELCOME" -> "welcome"
    [] word = "Bonus" -> "bonus"
    [] OTHER -> word

\* memo__icontains=needle: the words of needle occur in memo, in a row,
\* whatever their case
IContains(memo, needle) ==
  \E i \in 1..(Len(memo) - Len(needle) + 1) :
    \A j \in 1..Len(needle) : Lower(memo[i + j - 1]) = Lower(needle[j])

\* variant: the filter asks for the transaction type "earn"
existing_bonus_earn(u) ==
  \E e \in BagToSet(transactions) :
    /\ e.receiver = u
    /\ e.transaction_type = "earn"
    /\ IContains(e.memo, <<"Welcome", "bonus">>)

\* Transaction.objects.filter(receiver=user, transaction_type='purchase',
\* memo__icontains='Welcome bonus').exists()
existing_bonus(u) ==
  \E e \in BagToSet(transactions) :
    /\ e.receiver = u
    /\ e.transaction_type = "purchase"
    /\ IContains(e.memo, <<"Welcome", "bonus">>)

\* a grant of the welcome bonus to u has been called and has not returned
GrantInFlight(u) ==
  \E w \in Workers : req[w].user = u /\ req[w].memo = BonusReason

\* _grant_welcome_bonus(user) is entered by handler w
GrantWelcomeBonusCall(w, u) ==
  /\ CallAllowed(w)
  /\ req' = [req EXCEPT ![w] =
        [Idle EXCEPT !.pc = "check_bonus", !.kind = "welcome_bonus",
                     !.user = u, !.amount = WelcomeBonus,
                     !.memo = BonusReason]]
  /\ run' = [run EXCEPT ![u] = DeadRun]
  /\ nextReq' = nextReq + 1
  /\ UNCHANGED <<workerVars, hookVars, dbVars, genSeq, styles, userLock,
                 genLock, queue, last, credited, debited>>

\* _grant_welcome_bonus(user) is called, after every earlier call for the
\* same user has returned
GrantWelcomeBonus(w) ==
  /\ CallAllowed(w)
  /\ \E u \in Users : ~GrantInFlight(u) /\ GrantWelcomeBonusCall(w, u)

\* _grant_welcome_bonus(user) is called while earlier calls may be running
GrantWelcomeBonusConcurrently(w) ==
  /\ CallAllowed(w)
  /\ \E u \in Users : GrantWelcomeBonusCall(w, u)

\* the existence check, then either the return or the call of add_tokens
\* with the bonus amount and reason
CheckBonus(w) ==
  LET r == req[w] IN
  /\ r.pc = "check_bonus"
  /\ IF existing_bonus(r.user)
     THEN /\ req' = [req EXCEPT ![w] = Idle]
          /\ last' = Returned(r.kind, "already granted")
     ELSE /\ req' = [req EXCEPT ![w] =
                [r EXCEPT !.pc = "lock_user", !.kind = "add_tokens"]]
          /\ last' = last
  /\ UNCHANGED <<workerVars, hookVars, dbVars, genSeq, styles, userLock,
                 genLock, queue, nextReq, credited, debited, run>>

NextBonus ==
  \/ \E w \in Workers : GrantWelcomeBonus(w)
  \/ \E w \in Workers : CheckBonus(w)
  \/ \E w \in Workers : CallTokenService(w)
  \/ \E w \in Workers : SelectUserForUpdate(w)
  \/ \E w \in Workers : Commit(w)

\* the welcome bonus, called one call at a time per account, among the other
\* calls of the ledger
SpecBonus == Init /\ [][NextBonus]_vars

NextBonusRace ==
  \/ \E w \in Workers : GrantWelcomeBonusConcurrently(w)
  \/ \E w \in Workers : CheckBonus(w)
  \/ \E w \in Workers : CallTokenService(w)
  \/ \E w \in Workers : SelectUserForUpdate(w)
  \/ \E w \in Workers : Commit(w)

\* the welcome bonus under concurrent calls for one account
SpecBonusRace == Init /\ [][NextBonusRace]_vars

----------------------------------------------------------------------------
(* Job dispatcher: GenerationViewSet.create *)

\* create requests that have not yet drawn their Generation id
PendingCreates ==
  Cardinality({x \in Workers : req[x].kind = "create" /\ req[x].pc = "lock_user"})

\* Style.objects.get(id=style_id) finds a row
StyleExists(style_id) ==
  style_id \in StyleIds /\ styles[style_id].training_status # "absent"

\* validation of the request before the atomic block; "" = passes
\* (first without the check of model_path, then as the view does it)
CreateValidationNoPathCheck(style_id, ratio) ==
  IF style_id = 0 THEN "400"
  ELSE IF ratio \notin DOMAIN COST_MAP THEN "400"
  ELSE IF ~StyleExists(style_id) THEN "404"
  ELSE IF styles[style_id].training_status # "completed" THEN "422"
  ELSE ""

CreateValidation(style_id, ratio) ==
  IF style_id = 0 THEN "400"
  ELSE IF ratio \notin DOMAIN COST_MAP THEN "400"
  ELSE IF ~StyleExists(style_id) THEN "404"
  ELSE IF styles[style_id].training_status # "completed" THEN "422"
  ELSE IF styles[style_id].model_path = "" THEN "422"
  ELSE ""

\* style ids a client may post: 0 = none given, 5 = never the id of a row
PostedStyleIds == {0, 1, 2, 3, 4, 5}

\* handler w takes the next request, and it may be a generation request
PostGenerationAllowed(w) ==
  /\ Accepts(w)
  /\ nextReq <= MaxRequests
  /\ genSeq + PendingCreates < MaxGenerations

\* POST /api/generations by user u with the given body, up to the start of
\* the atomic block; up tells whether the broker will be reachable
PostGenerationWith(w, u, style_id, ratio, up) ==
  /\ PostGenerationAllowed(w)
  /\ LET v == CreateValidation(style_id, ratio) IN
       /\ req' = [req EXCEPT ![w] =
            IF v # "" THEN Idle
            ELSE [Idle EXCEPT !.pc = "lock_user", !.kind = "create",
                    !.user = u, !.style = style_id,
                    !.amount = COST_MAP[ratio], !.broker = up,
                    !.memo = Reason("create")]]
       /\ last' = IF v # "" THEN Returned("create", v) ELSE last
       /\ run' = IF v # "" THEN run ELSE [run EXCEPT ![u] = DeadRun]
  /\ nextReq' = nextReq + 1
  /\ UNCHANGED <<workerVars, hookVars, dbVars, genSeq, styles, userLock,
                 genLock, queue, credited, debited>>

PostGeneration(w) ==
  /\ PostGenerationAllowed(w)
  /\ \E u \in Users, style_id \in PostedStyleIds, ratio \in AspectRatios,
        up \in BOOLEAN : PostGenerationWith(w, u, style_id, ratio, up)

\* the envelope send_generation_task builds
GenerationEnvelope(r) ==
  [type |-> "image_generation",
   data |-> [id |-> r.gen, style_id |-> r.style, images |-> 0],
   redelivered |-> FALSE]

\* rabbitmq.send_generation_task(...) inside the atomic block, then the
\* save of task_id into generation_progress.  The call raises TypeError
\* when it is given a keyword the function does not accept; otherwise the
\* broker is either reachable (publish) or not (AMQPConnectionError after the
\* connection retries).  Any exception leaves the atomic block: rollback.
SendGenerationTask(w) ==
  LET r == req[w] IN
  /\ r.pc = "publish"
  /\ IF CreateSendKwargs \subseteq SendGenerationTaskParams /\ r.broker
       THEN /\ queue' = [queue EXCEPT !["image_generation"] =
                           Append(@, GenerationEnvelope(r))]
            /\ req' = [req EXCEPT ![w] =
                 [r EXCEPT !.pc = "commit",
                    !.txGen = {<<p[1], [p[2] EXCEPT
                                           !.generation_progress = "task_id"]>> :
                                 p \in r.txGen}]]
            /\ UNCHANGED <<userLock, genLock, last, dbVars>>
       ELSE /\ queue' = queue
            /\ token_balance' = ApplyUsers(Rollback(r))
            /\ transactions' = ApplyTransactions(Rollback(r))
            /\ generations' = ApplyGenerations(Rollback(r))
            /\ req' = [req EXCEPT ![w] = Idle]
            /\ last' = Returned(r.kind, "500")
            /\ userLock' = ReleaseUser(w)
            /\ genLock' = ReleaseGen(w)
  /\ UNCHANGED <<workerVars, hookVars, genSeq, styles, nextReq, credited,
                 debited, run>>

\* a Generation row added through the admin site (GenerationAdmin)
AdminAddGeneration ==
  /\ genSeq + PendingCreates < MaxGenerations
  /\ nextReq <= MaxRequests
  /\ nextReq' = nextReq + 1
  /\ \E u \in Users, ratio \in DOMAIN COST_MAP :
       generations' = [generations EXCEPT ![genSeq + 1] =
          [NoGeneration EXCEPT !.status = "queued", !.user = u, !.style = 1,
             !.consumed_tokens = COST_MAP[ratio]]]
  /\ genSeq' = genSeq + 1
  /\ UNCHANGED <<workerVars, hookVars, token_balance, transactions, styles,
                 userLock, genLock, queue, req, last, credited, debited,
                 run>>

----------------------------------------------------------------------------
(* Webhook receiver: inference_failed *)

\* generation ids a worker may post: 0 = none given
PostedGenIds == 0..MaxGenerations

\* handler w takes the next request
WebhookAllowed(w) == Accepts(w) /\ nextReq <= MaxRequests

\* POST /api/webhooks/inference/failed up to the atomic block
WebhookInferenceFailedWith(w, g) ==
  /\ WebhookAllowed(w)
  /\ req' = [req EXCEPT ![w] =
       IF g = 0 THEN Idle
       ELSE [Idle EXCEPT !.pc = "lock_gen", !.kind = "inference_failed",
               !.gen = g, !.memo = Reason("inference_failed")]]
  /\ last' = IF g = 0 THEN Returned("inference_failed", "400") ELSE last
  /\ nextReq' = nextReq + 1
  /\ UNCHANGED <<workerVars, hookVars, dbVars, genSeq, styles, userLock,
                 genLock, queue, credited, debited, run>>

WebhookInferenceFailed(w) ==
  /\ WebhookAllowed(w)
  /\ \E g \in PostedGenIds : WebhookInferenceFailedWith(w, g)

\* variant: the lookup answers for every id of the table's range
GenerationExistsAnyId(generation_id) == generation_id \in GenIds

\* Generation.objects.get(id=generation_id) finds a row
GenerationExists(generation_id) ==
  generation_id \in GenIds /\ generations[generation_id].status # "absent"

\* Generation.objects.select_for_update().get(id=...), then the evaluation
\* of the arguments of the refund_tokens call
LockGeneration(w) ==
  LET r == req[w]
      g == r.gen
  IN
  /\ r.pc = "lock_gen"
  /\ IF ~GenerationExists(g)
     THEN \* Generation.DoesNotExist -> 404
          /\ req' = [req EXCEPT ![w] = Idle]
          /\ last' = Returned(r.kind, "404")
          /\ UNCHANGED <<genLock, run>>
     ELSE /\ RowAvailable(genLock[g], w)
          /\ IF RefundAmountAttr \notin GenerationFields
             THEN \* AttributeError leaves the atomic block, not caught
                  /\ req' = [req EXCEPT ![w] = Idle]
                  /\ last' = Returned(r.kind, "500")
                  /\ UNCHANGED <<genLock, run>>
             ELSE /\ genLock' = [genLock EXCEPT ![g] = w]
                  /\ req' = [req EXCEPT ![w] =
                       [r EXCEPT !.pc = "lock_user",
                          !.user = generations[g].user,
                          !.amount = generations[g][RefundAmountAttr]]]
                  /\ run' = [run EXCEPT ![generations[g].user] = DeadRun]
                  /\ last' = last
  /\ UNCHANGED <<workerVars, hookVars, dbVars, genSeq, styles, userLock,
                 queue, nextReq, credited, debited>>

----------------------------------------------------------------------------
(* Job consumers: TrainingConsumer and GenerationConsumer *)

\* the queue each consumer reads and the task type it accepts
QueueOf(c) == IF c = "training" THEN "model_training" ELSE "image_generation"

\* max_attempts in process_training_task / process_generation_task
max_attempts == 3

\* variant: the exponent is the attempt number
backoff_seconds_late(attempt) == 2 ^ attempt

\* backoff_seconds = 2 ** (attempt - 1)
backoff_seconds(attempt) == 2 ^ (attempt - 1)

Ev(e, n, ok) == [e |-> e, n |-> n, ok |-> ok]

\* bodies a publisher may have put on a queue: a task of either type, or a
\* body that is not JSON; style_id 0 and images 0 stand for missing fields
Envelopes ==
  { [type |-> t, data |-> [id |-> 1, style_id |-> s, images |-> n],
     redelivered |-> FALSE] :
      t \in {"model_training", "image_generation", "not_json"},
      s \in {0, 1}, n \in {0, 2} }

\* channel.basic_publish on a durable queue
BrokerEnqueue ==
  /\ published < MaxMessages
  /\ \E q \in QueueNames, env \in Envelopes :
       queue' = [queue EXCEPT ![q] = Append(@, env)]
  /\ published' = published + 1
  /\ UNCHANGED <<backendVars, cons, trace, execution>>

\* the broker hands the head of the queue to the consumer (auto_ack=False)
Deliver(c) ==
  /\ cons[c].pc = "idle"
  /\ queue[QueueOf(c)] # <<>>
  /\ cons' = [cons EXCEPT ![c] =
        [pc |-> "on_message", msg |-> Head(queue[QueueOf(c)]), attempt |-> 0]]
  /\ queue' = [queue EXCEPT ![QueueOf(c)] = Tail(@)]
  /\ trace' = [trace EXCEPT ![c] = <<>>]
  /\ UNCHANGED <<backendVars, published, execution>>

\* ch.basic_ack / ch.basic_nack(requeue=...): what the broker does with the
\* delivered message, and the end of on_message
Settle(c, how, events) ==
  /\ cons' = [cons EXCEPT ![c] = Waiting]
  /\ trace' = [trace EXCEPT ![c] = @ \o events \o <<Ev(how, 0, TRUE)>>]
  /\ queue' = [queue EXCEPT ![QueueOf(c)] =
        IF how = "nack_requeue"
        THEN <<[cons[c].msg EXCEPT !.redelivered = TRUE]>> \o @
        ELSE @]

\* disposition of a message whose task returned False
FailedDisposition(c) == IF c = "training" THEN "nack_requeue" ELSE "nack"

\* disposition of a body that json.loads rejects
JsonErrorDisposition(c) == IF c = "training" THEN "ack" ELSE "nack"

\* variant: a message of another type is handed back to the broker
UnknownTypeRequeued(c) == "nack_requeue"

\* disposition of a message whose type is not the task type of the consumer
\* ("Unknown task type": basic_ack and return)
UnknownTypeDisposition(c) == "ack"

\* variant: only the style id is validated
TrainingDataRejectedStyleOnly(data) == data.style_id = 0

\* process_training_task returns False before the retry loop
TrainingDataRejected(data) == data.style_id = 0 \/ data.images = 0

\* on_message up to the first engine call
OnMessage(c) ==
  LET m == cons[c].msg IN
  /\ cons[c].pc = "on_message"
  /\ IF m.type = "not_json"
     THEN Settle(c, JsonErrorDisposition(c), <<>>)
     ELSE IF m.type # QueueOf(c)
     THEN Settle(c, UnknownTypeDisposition(c), <<>>)
     ELSE IF c = "training" /\ TrainingDataRejected(m.data)
     THEN Settle(c, FailedDisposition(c), <<>>)
     ELSE /\ cons' = [cons EXCEPT ![c] = [@ EXCEPT !.pc = "attempt", !.attempt = 1]]
          /\ UNCHANGED <<trace, queue>>
  /\ UNCHANGED <<backendVars, published, execution>>

\* variant: a post that failed is made once more
send_webhook_again(e, n, posted) ==
  IF posted THEN <<Ev(e, n, TRUE)>> ELSE <<Ev(e, n, FALSE), Ev(e, n, FALSE)>>

\* WebhookService.send_*: one requests.post / patch (timeout=10) followed by
\* raise_for_status; it returns True, or a RequestException is logged and it
\* returns False.  The callers do not read the result.
send_webhook(e, n, posted) == <<Ev(e, n, posted)>>

\* variant: the completion webhook is left to the caller, which has none
EngineReportNoCompletion(c, a, engineOk, delivered) ==
  IF c = "inference" /\ ~engineOk
  THEN send_webhook("inference/failed", a, delivered)
  ELSE <<>>

\* the webhook that follows an engine call within the attempt:
\* real_generation reports its own outcome (send_inference_completed before
\* it returns the url, send_inference_failed in its except block);
\* process_training_task sends training/complete when real_training returned
\* a model path and nothing when it did not
EngineReport(c, a, engineOk, delivered) ==
  IF c = "inference"
  THEN send_webhook(IF engineOk THEN "inference/complete"
                                ELSE "inference/failed", a, delivered)
  ELSE IF engineOk THEN send_webhook("training/complete", a, delivered)
  ELSE <<>>

\* one pass of the retry loop: the engine call (real_training /
\* real_generation) with the webhooks it sends, then either the return of
\* the task and the ack/nack of on_message, or the backoff sleep
Attempt(c) ==
  LET a == cons[c].attempt IN
  /\ cons[c].pc = "attempt"
  /\ \E engineOk \in BOOLEAN, delivered \in BOOLEAN :
       LET engine == <<Ev("engine", a, engineOk)>>
           inner == EngineReport(c, a, engineOk, delivered)
       IN
       IF engineOk
       THEN Settle(c, "ack", engine \o inner)
       ELSE IF a < max_attempts
       THEN /\ cons' = [cons EXCEPT ![c] = [@ EXCEPT !.attempt = a + 1]]
            /\ trace' = [trace EXCEPT ![c] =
                  @ \o engine \o inner \o <<Ev("sleep", backoff_seconds(a), TRUE)>>]
            /\ queue' = queue
       ELSE \E delivered2 \in BOOLEAN :
              Settle(c, FailedDisposition(c),
                     engine \o inner \o
                     send_webhook(IF c = "training" THEN "training/failed"
                                                    ELSE "inference/failed",
                                  max_attempts + 1, delivered2))
  /\ UNCHANGED <<backendVars, published, execution>>

----------------------------------------------------------------------------
(* Progress reporting of the engines *)

\* milestones in real_generation.progress_callback
milestones == {0, 25, 50, 75, 90}

\* int((current / total) * 100)
progress_percent(current, total) == (current * 100) \div total

\* the inference callback posts a progress webhook for this step
InferenceCallbackSends(current_step, total_steps) ==
  progress_percent(current_step, total_steps) \in milestones
    \/ current_step = 0

\* num_inference_steps of a generation, num_epochs of a training
TotalSteps(c) == IF c = "inference" THEN 1..MaxSteps ELSE 1..MaxEpochs

\* generator.generate / trainer.train starts: the pipeline reports the steps
\* 0 .. total-1, the trainer the epochs 1 .. total
StartEngine(c) ==
  /\ execution.consumer = "none"
  /\ \E total \in TotalSteps(c) :
       execution' = [NoEngine EXCEPT !.consumer = c, !.total = total,
                                  !.next = IF c = "inference" THEN 0 ELSE 1]
  /\ UNCHANGED <<backendVars, cons, trace, published, queue>>

\* the last step or epoch the engine reports
LastReported(c, total) == IF c = "inference" THEN total - 1 ELSE total

\* one step of the pipeline with its callback (callback_steps=1), or one
\* epoch of the trainer, which calls the callback when progress_interval
\* seconds have passed since the last call; the training callback posts a
\* webhook whenever it is called
ProgressCallback ==
  LET c == execution.consumer
      current == execution.next
      percent == progress_percent(current, execution.total)
  IN
  /\ c # "none"
  /\ current <= LastReported(c, execution.total)
  /\ \E elapsed \in (IF c = "training" THEN BOOLEAN ELSE {TRUE}) :
       LET sends == IF c = "inference"
                    THEN InferenceCallbackSends(current, execution.total)
                    ELSE elapsed
       IN execution' = [execution EXCEPT
                       !.next = @ + 1,
                       !.sent = IF sends THEN @ + 1 ELSE @,
                       !.percents = IF sends THEN @ \cup {percent} ELSE @]
  /\ UNCHANGED <<backendVars, cons, trace, published, queue>>

\* generate / train returns; what was sent stays on record until the next
\* execution starts
EngineReturns ==
  /\ execution.consumer # "none"
  /\ execution.next > LastReported(execution.consumer, execution.total)
  /\ execution' = [execution EXCEPT !.consumer = "none"]
  /\ UNCHANGED <<backendVars, cons, trace, published, queue>>

NextProgress ==
  \/ \E c \in Consumers : StartEngine(c)
  \/ ProgressCallback
  \/ EngineReturns

\* one engine execution at a time, for every number of steps
SpecProgress == Init /\ [][NextProgress]_vars

----------------------------------------------------------------------------
(* Publisher connection: RabbitMQService.get_channel *)

\* max_retries in get_channel
max_retries == 3

\* variant: the comparison lets one more attempt through
RetriesExhaustedLate(retry_count) == retry_count > max_retries

\* "if retry_count >= max_retries: raise"
RetriesExhausted(retry_count) == retry_count >= max_retries

\* the except block of get_channel: count, close(), then raise or loop
ExceptBlock(ch) ==
  LET n == ch.retry_count + 1 IN
  IF RetriesExhausted(n)
  THEN [ch EXCEPT !.retry_count = n, !.connection = "none", !.pc = "idle",
                  !.result = "AMQPConnectionError", !.clean = FALSE]
  ELSE [ch EXCEPT !.retry_count = n, !.connection = "none", !.pc = "loop",
                  !.clean = @ /\ ~ch.thrown]

\* "with self.get_channel() as channel" is entered by publish_message
GetChannel ==
  /\ rabbitmq.pc = "idle"
  /\ rabbitmq.calls < MaxPublishes
  /\ rabbitmq' = [rabbitmq EXCEPT !.pc = "loop", !.calls = @ + 1,
                     !.retry_count = 0, !.attempts = 0, !.thrown = FALSE,
                     !.result = ""]
  /\ UNCHANGED jobVars

\* one pass of the while loop up to the yield: the connection is opened when
\* there is none or it is closed, and BlockingConnection either returns or
\* raises AMQPConnectionError.  A second yield, after an exception of the
\* body was caught, makes the context manager raise RuntimeError.
ConnectOrReuse ==
  /\ rabbitmq.pc = "loop"
  /\ IF rabbitmq.connection # "open"
     THEN \E reachable \in BOOLEAN :
            LET tried == [rabbitmq EXCEPT !.attempts = @ + 1] IN
            rabbitmq' =
              IF ~reachable THEN ExceptBlock(tried)
              ELSE IF rabbitmq.thrown
              THEN [tried EXCEPT !.connection = "open", !.created = @ + 1,
                                 !.pc = "idle", !.result = "RuntimeError",
                                 !.clean = FALSE]
              ELSE [tried EXCEPT !.connection = "open", !.created = @ + 1,
                                 !.pc = "body"]
     ELSE rabbitmq' = [rabbitmq EXCEPT !.pc = "body"]
  /\ UNCHANGED jobVars

\* the body of the with block (queue_declare, basic_publish): it returns, or
\* raises an exception get_channel catches (AMQPConnectionError,
\* ChannelClosed), or another exception, which passes through get_channel
\* and may leave the connection closed
PublishBody ==
  /\ rabbitmq.pc = "body"
  /\ \/ rabbitmq' = [rabbitmq EXCEPT !.pc = "idle", !.result = "published",
                        !.publishes = IF rabbitmq.clean THEN @ + 1 ELSE @]
     \/ rabbitmq' = ExceptBlock([rabbitmq EXCEPT !.thrown = TRUE])
     \/ \E left \in {"open", "closed"} :
          rabbitmq' = [rabbitmq EXCEPT !.pc = "idle", !.result = "error",
                         !.connection = left, !.clean = FALSE]
  /\ UNCHANGED jobVars

NextChannel ==
  \/ GetChannel
  \/ ConnectOrReuse
  \/ PublishBody

\* the publisher's connection handling over a sequence of publishes
SpecChannel == Init /\ [][NextChannel]_vars

----------------------------------------------------------------------------
Next ==
  \/ \E w \in Workers : CallTokenService(w)
  \/ \E w \in Workers : SelectUserForUpdate(w)
  \/ \E w \in Workers : Commit(w)
  \/ \E w \in Workers : PostGeneration(w)
  \/ \E w \in Workers : SendGenerationTask(w)
  \/ AdminAddGeneration
  \/ \E w \in Workers : WebhookInferenceFailed(w)
  \/ \E w \in Workers : LockGeneration(w)

\* the request handlers of the backend
Spec == Init /\ [][Next]_vars

\* a step of a request that has been received
HandlerStep ==
  \E w \in Workers :
    \/ SelectUserForUpdate(w)
    \/ SendGenerationTask(w)
    \/ Commit(w)
    \/ LockGeneration(w)

\* the requests as far as their row locks go: one amount and one valid body
\* stand for the inputs, which decide no lock
LockingRequest(w) ==
  \/ /\ CallAllowed(w)
     /\ \E kind \in Direct, u \in Users :
          CallTokenServiceWith(w, kind, u, 100)
  \/ /\ PostGenerationAllowed(w)
     /\ \E u \in Users, up \in BOOLEAN :
          PostGenerationWith(w, u, 1, "1:1", up)
  \/ WebhookInferenceFailed(w)

NextLocks ==
  \/ \E w \in Workers : LockingRequest(w)
  \/ AdminAddGeneration
  \/ HandlerStep

\* the server keeps running the threads of the requests it has received:
\* while some request can take its next statement, one of them does (the
\* database grants a free row lock to a transaction waiting for it)
SpecLocks == Init /\ [][NextLocks]_vars /\ WF_vars(HandlerStep)

NextConsumer ==
  \/ BrokerEnqueue
  \/ \E c \in Consumers : Deliver(c)
  \/ \E c \in Consumers : OnMessage(c)
  \/ \E c \in Consumers : Attempt(c)

\* the two consumers and the broker queues they read
SpecConsumer == Init /\ [][NextConsumer]_vars

\* each consumer is a process blocked in start_consuming: the broker keeps
\* delivering while the queue is not empty, and on_message and every engine
\* call return
SpecConsumerFair ==
  /\ SpecConsumer
  /\ \A c \in Consumers :
       /\ WF_vars(Deliver(c))
       /\ WF_vars(OnMessage(c))
       /\ WF_vars(Attempt(c))

----------------------------------------------------------------------------
(* Webhook receiver: the authentication middleware and the six endpoints *)

WebhookPrefix == "/api/webhooks/"

\* the routes under the prefix
WebhookEndpoints ==
  {"training/progress", "training/complete", "training/failed",
   "inference/progress", "inference/complete", "inference/failed"}

\* values of the Authorization header a client may send (<<>> = no header):
\* the bare secret, the secret or another token after the scheme, the scheme
\* twice, and two blanks after the scheme
AuthorizationHeaders ==
  { <<>>, <<"s">>, <<"Bearer ", "s">>, <<"Bearer ", "x">>,
    <<"Bearer ", "Bearer ", "s">>, <<"Bearer ", " ", "s">> }

\* values of the X-Request-Source header a client may send ("" = no header)
RequestSources == {"", "training-server", "inference-server", "browser"}

RecognizedSources == {"training-server", "inference-server"}

\* str.startswith
StartsWith(text, piece) == Len(text) > 0 /\ text[1] = piece

\* str.replace(piece, ""): every occurrence is removed
Replace(text, piece) == SelectSeq(text, LAMBDA x : x # piece)

\* str.strip(): leading and trailing blanks are removed
RECURSIVE LStrip(_)
LStrip(text) ==
  IF Len(text) > 0 /\ text[1] = " " THEN LStrip(Tail(text)) ELSE text

RECURSIVE RStrip(_)
RStrip(text) ==
  IF Len(text) > 0 /\ text[Len(text)] = " "
  THEN RStrip(SubSeq(text, 1, Len(text) - 1))
  ELSE text

Strip(text) == RStrip(LStrip(text))

\* WebhookAuthMiddleware.__call__ up to get_response: the status of the
\* response it returns itself, or "" when it hands the request on
WebhookAuthMiddleware(path, authorization, source) ==
  IF ~StartsWith(path, WebhookPrefix) THEN ""
  ELSE IF ~StartsWith(authorization, "Bearer ") THEN "401"
  ELSE LET token == Strip(Replace(authorization, "Bearer ")) IN
       IF INTERNAL_API_TOKEN = <<>> THEN "500"
       ELSE IF token # INTERNAL_API_TOKEN THEN "401"
       ELSE IF source \notin RecognizedSources THEN "403"
       ELSE ""

\* what a handler leaves behind: its response and the tables it wrote
Outcome(response) ==
  [response |-> response, styles |-> styles, generations |-> generations,
   notifications |-> notifications]

\* variant: the view runs first and the middleware replaces its response
RespondAfterView(gate, out) ==
  IF gate # "" THEN [out EXCEPT !.response = gate] ELSE out

\* the middleware returns its own JsonResponse without calling get_response,
\* or the response of the view
Respond(gate, out) == IF gate # "" THEN Outcome(gate) ELSE out

\* request.data.get("progress", {})
ProgressData(payload) == IF payload = "" THEN "{}" ELSE payload

\* variant: a progress update also puts the style back into training
training_progress_restarts(style_id, payload) ==
  IF style_id = 0 THEN Outcome("400")
  ELSE IF ~StyleExists(style_id) THEN Outcome("404")
  ELSE [Outcome("200") EXCEPT
          !.styles[style_id] =
             [@ EXCEPT !.training_progress = ProgressData(payload),
                       !.training_status = "training"]]

\* PATCH training/progress
training_progress(style_id, payload) ==
  IF style_id = 0 THEN Outcome("400")
  ELSE IF ~StyleExists(style_id) THEN Outcome("404")
  ELSE [Outcome("200") EXCEPT
          !.styles[style_id].training_progress = ProgressData(payload)]

\* the system notification to the owner of a style
Notification(recipient, type, style_id) ==
  [recipient |-> recipient, type |-> type, target_type |-> "style",
   target_id |-> style_id]

\* POST training/complete: the row is saved inside the atomic block, then the
\* arguments of Notification.objects.create are evaluated; an AttributeError
\* leaves the block (rollback) and is not caught
training_complete(style_id, model_path) ==
  IF style_id = 0 THEN Outcome("400")
  ELSE IF model_path = "" THEN Outcome("400")
  ELSE IF ~StyleExists(style_id) THEN Outcome("404")
  ELSE IF RecipientAttr \notin StyleFields THEN Outcome("500")
  ELSE [Outcome("200") EXCEPT
          !.styles[style_id] =
             [@ EXCEPT !.training_status = "completed",
                       !.model_path = model_path,
                       !.training_progress = "null"],
          !.notifications =
             @ \cup {Notification(styles[style_id][RecipientAttr],
                                  "style_training_complete", style_id)}]

\* POST training/failed
training_failed(style_id) ==
  IF style_id = 0 THEN Outcome("400")
  ELSE IF ~StyleExists(style_id) THEN Outcome("404")
  ELSE IF RecipientAttr \notin StyleFields THEN Outcome("500")
  ELSE [Outcome("200") EXCEPT
          !.styles[style_id] =
             [@ EXCEPT !.training_status = "failed",
                       !.training_progress = "null"],
          !.notifications =
             @ \cup {Notification(styles[style_id][RecipientAttr],
                                  "style_training_failed", style_id)}]

\* variant: the progress update also marks the row as being processed
ProgressSaveWithStatus(row, progress_data) ==
  [row EXCEPT !.generation_progress = progress_data, !.status = "processing"]

\* generation.generation_progress = progress_data and the save of that field
ProgressSave(row, progress_data) ==
  [row EXCEPT !.generation_progress = progress_data]

\* variant: the update is refused once the row is completed or failed
inference_progress_guarded(generation_id, payload) ==
  IF generation_id = 0 THEN Outcome("400")
  ELSE IF ~GenerationExists(generation_id) THEN Outcome("404")
  ELSE IF generations[generation_id].status \in {"completed", "failed"}
  THEN Outcome("409")
  ELSE [Outcome("200") EXCEPT
          !.generations[generation_id] =
             ProgressSave(@, ProgressData(payload))]

\* PATCH inference/progress
inference_progress(generation_id, payload) ==
  IF generation_id = 0 THEN Outcome("400")
  ELSE IF ~GenerationExists(generation_id) THEN Outcome("404")
  ELSE [Outcome("200") EXCEPT
          !.generations[generation_id] =
             ProgressSave(@, ProgressData(payload))]

\* POST inference/complete: the attributes are set inside the atomic block,
\* then generation.metadata is read; an AttributeError leaves the block
\* before the save and is not caught
inference_complete(generation_id, result_url) ==
  IF generation_id = 0 THEN Outcome("400")
  ELSE IF result_url = "" THEN Outcome("400")
  ELSE IF ~GenerationExists(generation_id) THEN Outcome("404")
  ELSE IF MetadataAttr \notin GenerationFields THEN Outcome("500")
  ELSE [Outcome("200") EXCEPT
          !.generations[generation_id] =
             [@ EXCEPT !.status = "completed", !.result_url = result_url,
                       !.generation_progress = "null"]]

\* the handlers that finish within the request step
Handle(endpoint, id, payload) ==
  CASE endpoint = "training/progress" -> training_progress(id, payload)
    [] endpoint = "training/complete" -> training_complete(id, payload)
    [] endpoint = "training/failed" -> training_failed(id)
    [] endpoint = "inference/progress" -> inference_progress(id, payload)
    [] endpoint = "inference/complete" -> inference_complete(id, payload)

TrainingEndpoints ==
  {"training/progress", "training/complete", "training/failed"}

\* ids a worker may post to the training and to the inference endpoints:
\* 0 = none given; 1 is a trained style, 4 the style a request may have
\* created
WebhookIds(endpoint) ==
  IF endpoint \in TrainingEndpoints THEN {0, 1, 4} ELSE PostedGenIds

\* what the body carries besides the id: progress, model_path or result_url
Payloads == {"", "r"}

\* a request to a webhook endpoint, from the middleware to the response; the
\* handler of inference/failed goes on in LockGeneration
WebhookRequestWith(w, endpoint, authorization, source, id, payload) ==
  LET gate == WebhookAuthMiddleware(<<WebhookPrefix, endpoint>>,
                                    authorization, source)
  IN
  IF endpoint = "inference/failed" /\ gate = ""
  THEN WebhookInferenceFailedWith(w, id)
  ELSE LET out == Respond(gate, IF endpoint = "inference/failed"
                                THEN Outcome("")
                                ELSE Handle(endpoint, id, payload))
       IN
       /\ WebhookAllowed(w)
       /\ nextReq' = nextReq + 1
       /\ (gate = "" /\ endpoint = "inference/complete"
             /\ GenerationExists(id)) => RowAvailable(genLock[id], w)
       /\ styles' = out.styles
       /\ generations' = out.generations
       /\ notifications' = out.notifications
       /\ last' = Returned(IF gate # "" THEN "webhook_auth" ELSE endpoint,
                           out.response)
       /\ UNCHANGED <<workerVars, INTERNAL_API_TOKEN, token_balance,
                      transactions, genSeq, userLock, genLock, queue, req,
                      credited, debited, run>>

\* Config.get_webhook_headers of the two workers, with the secret set
WorkerAuthorization == <<"Bearer ">> \o SharedSecret

WorkerSource(endpoint) ==
  IF endpoint \in TrainingEndpoints
  THEN "training-server" ELSE "inference-server"

\* a request WebhookService of a worker sends
WorkerWebhook(w) ==
  /\ WebhookAllowed(w)
  /\ \E endpoint \in WebhookEndpoints :
       \E id \in WebhookIds(endpoint), payload \in Payloads :
         WebhookRequestWith(w, endpoint, WorkerAuthorization,
                            WorkerSource(endpoint), id, payload)

\* the bodies a client sends: an empty one, and one that names the first
\* row and carries a payload
ClientBodies == {<<0, "">>, <<1, "r">>}

\* a request any client sends to a webhook endpoint
ClientWebhook(w) ==
  /\ WebhookAllowed(w)
  /\ \E endpoint \in WebhookEndpoints,
        authorization \in AuthorizationHeaders, source \in RequestSources,
        body \in ClientBodies :
       WebhookRequestWith(w, endpoint, authorization, source,
                          body[1], body[2])

----------------------------------------------------------------------------
(* Style submission and seeded rows *)

\* the id the next row of the styles table gets
NextStyleId ==
  CHOOSE s \in StyleIds :
    /\ styles[s].training_status = "absent"
    /\ \A t \in StyleIds : styles[t].training_status = "absent" => s <= t

\* POST /api/styles/ by artist u up to the dispatch: the serializer validates
\* the body and saves the row with the default training_status
PostStyle(w) ==
  /\ Accepts(w)
  /\ nextReq <= MaxRequests
  /\ WebhookAuthMiddleware(<<"/api/", "styles/">>, <<>>, "") = ""
  /\ \E u \in Users, valid \in BOOLEAN, up \in BOOLEAN :
       IF ~valid
       THEN /\ last' = Returned("style_create", "400")
            /\ UNCHANGED <<styles, req>>
       ELSE /\ \E s \in StyleIds : styles[s].training_status = "absent"
            /\ styles' = [styles EXCEPT ![NextStyleId] =
                  [NoStyle EXCEPT !.training_status = "pending",
                                  !.artist = u]]
            /\ req' = [req EXCEPT ![w] =
                  [Idle EXCEPT !.pc = "send_training",
                     !.kind = "style_create", !.style = NextStyleId,
                     !.broker = up]]
            /\ last' = last
  /\ nextReq' = nextReq + 1
  /\ UNCHANGED <<workerVars, hookVars, dbVars, genSeq, userLock, genLock,
                 queue, credited, debited, run>>

\* the keys of the data record send_training_task builds
TrainingDataKeys == {"style_id", "image_paths", "num_epochs"}

\* data.get(key, 0) on the record send_training_task builds from value
DataGet(key, value) == IF key \in TrainingDataKeys THEN value ELSE 0

\* the envelope send_training_task builds, as the consumer reads it: the
\* style id under "style_id" and the number of images under "images" (the
\* create view submits two or more images)
TrainingEnvelope(r) ==
  [type |-> "model_training",
   data |-> [id |-> 0, style_id |-> DataGet("style_id", r.style),
             images |-> DataGet("images", 2)],
   redelivered |-> FALSE]

\* variant: the status is set before the publish and not reset
TrainingStatusSetFirst(sent) == "training"

\* variant: a style that could not be dispatched is marked failed
TrainingStatusFailClosed(sent) == IF sent THEN "training" ELSE "failed"

\* the training_status StyleViewSet.create saves after the try block
TrainingStatusAfterDispatch(sent) == IF sent THEN "training" ELSE "pending"

\* the try block of StyleViewSet.create: send_training_task, then the save of
\* training_status alone, and the 201 response with or without the warning
SendTrainingTask(w) ==
  LET r == req[w]
      sent == StyleSendKwargs \subseteq SendTrainingTaskParams /\ r.broker
  IN
  /\ r.pc = "send_training"
  /\ queue' = IF sent
              THEN [queue EXCEPT !["model_training"] =
                      Append(@, TrainingEnvelope(r))]
              ELSE queue
  /\ styles' = [styles EXCEPT ![r.style].training_status =
                  TrainingStatusAfterDispatch(sent)]
  /\ last' = Returned(r.kind, IF sent THEN "201" ELSE "201 warning")
  /\ req' = [req EXCEPT ![w] = Idle]
  /\ UNCHANGED <<workerVars, hookVars, dbVars, genSeq, userLock, genLock,
                 nextReq, credited, debited, run>>

\* a Generation row of the create_dummy_data command: stored as completed
DummyGeneration(u) ==
  [NoGeneration EXCEPT !.status = "completed", !.user = u, !.style = 1,
     !.consumed_tokens = 10, !.result_url = "dummy"]

\* the tables are empty of generations, or the command has seeded one
InitSeeded ==
  /\ InitState
  /\ INTERNAL_API_TOKEN = SharedSecret
  /\ \/ /\ generations = [g \in GenIds |-> NoGeneration]
        /\ genSeq = 0
     \/ /\ \E u \in Users :
             generations = [g \in GenIds |->
                IF g = 1 THEN DummyGeneration(u) ELSE NoGeneration]
        /\ genSeq = 1

NextWebhook ==
  \/ \E w \in Workers : WorkerWebhook(w)
  \/ \E w \in Workers : LockGeneration(w)
  \/ \E w \in Workers : PostStyle(w)
  \/ \E w \in Workers : SendTrainingTask(w)
  \/ AdminAddGeneration

\* the webhook receiver under the requests of the workers, and the style
\* submission
SpecWebhook == InitSeeded /\ [][NextWebhook]_vars

NextTraining ==
  \/ \E w \in Workers : PostStyle(w)
  \/ \E w \in Workers : SendTrainingTask(w)
  \/ BrokerEnqueue
  \/ \E c \in Consumers : Deliver(c)
  \/ \E c \in Consumers : OnMessage(c)
  \/ \E c \in Consumers : Attempt(c)

\* the style submission as a publisher on the queues the consumers read
SpecTraining == Init /\ [][NextTraining]_vars

\* the secret may also be missing from the settings of the backend
InitGate ==
  /\ InitTables
  /\ INTERNAL_API_TOKEN \in {<<>>, SharedSecret}

NextGate ==
  \/ \E w \in Workers : ClientWebhook(w)
  \/ \E w \in Workers : LockGeneration(w)
  \/ AdminAddGeneration

\* the webhook endpoints under the requests of arbitrary clients
SpecGate == InitGate /\ [][NextGate]_vars

----------------------------------------------------------------------------
(* Properties *)

TypeOK ==
  /\ token_balance \in [Users -> Int]
  /\ genSeq \in 0..MaxGenerations
  /\ nextReq \in 1..(MaxRequests + 1)
  /\ \A c \in Consumers : cons[c].attempt \in 0..max_attempts

\* sum of the amounts of the ledger rows in S, with multiplicity
RECURSIVE Total(_)
Total(S) ==
  IF S = {} THEN 0
  ELSE LET e == CHOOSE x \in S : TRUE
       IN e.amount * CopiesIn(e, transactions) + Total(S \ {e})

Received(u) ==
  {e \in BagToSet(transactions) : e.status = "completed" /\ e.receiver = u}

Sent(u) ==
  {e \in BagToSet(transactions) : e.status = "completed" /\ e.sender = u}

\* handler w takes a step of its request r in this transition
Steps(w, kind, pc) ==
  req[w].kind = kind /\ req[w].pc = pc /\ req'[w] # req[w]

\* C1: in every committed state every account's token balance is >= 0
C1_BalanceNonNegative == \A u \in Users : token_balance[u] >= 0

\* a debit has brought an account down to exactly zero
C1_Witness == \E u \in Users : debited[u] > 0 /\ token_balance[u] = 0

\* C2: when a run of n consume_tokens calls of amount A, started on a
\* balance of exactly N*A, has completely returned and n is N or N+1, then
\* exactly N calls succeeded, n-N got the insufficient-funds error and the
\* balance is 0
C2_NoLostDebit ==
  \A u \in Users :
    LET k == run[u] IN
    (/\ k.amt > 0
     /\ k.ok + k.insufficient = k.n
     /\ k.bal % k.amt = 0
     /\ k.n \in {k.bal \div k.amt, k.bal \div k.amt + 1})
    => /\ k.ok = k.bal \div k.amt
       /\ k.insufficient = k.n - k.bal \div k.amt
       /\ token_balance[u] = 0

\* N+1 = 2 calls of the whole balance: one success, one error
C2_Witness ==
  \E u \in Users :
    /\ run[u].amt > 0 /\ run[u].bal = run[u].amt
    /\ run[u].n = 2 /\ run[u].ok = 1 /\ run[u].insufficient = 1

\* C3: once every call on an account has returned, its balance is the
\* initial balance (0) plus the credits and refunds minus the debits that
\* succeeded
C3_BalanceIsSumOfCalls ==
  \A u \in Users :
    ~InFlight(u) => token_balance[u] = credited[u] - debited[u]

\* a credit, a refund and a debit have all returned on one account
C3_Witness ==
  \E u \in Users :
    ~InFlight(u) /\ credited[u] = 150 /\ debited[u] = 100

\* C4: every balance equals the completed ledger rows received minus the
\* completed ledger rows sent
C4_BalanceMatchesLedger ==
  \A u \in Users : token_balance[u] = Total(Received(u)) - Total(Sent(u))

\* an account with both rows received and rows sent
C4_Witness ==
  \E u \in Users :
    token_balance[u] > 0 /\ Received(u) # {} /\ Sent(u) # {}

\* C5: consume_tokens with balance < amount raises the insufficient-funds
\* error and changes neither balance nor ledger; with balance >= amount it
\* lowers the balance by exactly amount and appends one completed consume row
C5_ConsumeAllOrNothing ==
  [][\A w \in Workers :
       LET r == req[w]
           u == r.user
       IN
       /\ Steps(w, "consume_tokens", "lock_user") =>
            IF token_balance[u] < r.amount
            THEN /\ last' = Returned("consume_tokens", "Insufficient")
                 /\ req'[w] = Idle
                 /\ UNCHANGED dbVars
            ELSE /\ req'[w].pc = "commit"
                 /\ UNCHANGED dbVars
       /\ Steps(w, "consume_tokens", "commit") =>
            /\ last' = Returned("consume_tokens", "ok")
            /\ token_balance' = [token_balance EXCEPT ![u] = @ - r.amount]
            /\ transactions' = transactions (+) SetToBag({
                 [sender |-> u, receiver |-> 0, amount |-> r.amount,
                  transaction_type |-> "consume", status |-> "completed",
                  related_generation |-> 0, refunded |-> FALSE,
                  memo |-> Reason("consume_tokens")]})
    ]_vars

\* a consume_tokens call was refused on an account that had been debited
C5_Witness ==
  /\ last = Returned("consume_tokens", "Insufficient")
  /\ \E u \in Users : debited[u] > 0

\* C6: when a create request fails after its debit, it leaves no Generation
\* row, no ledger row and the balance as it was
C6_DispatchAtomicity ==
  [][\A w \in Workers :
       (Steps(w, "create", "publish") /\ req'[w] = Idle) =>
         /\ UNCHANGED dbVars
         /\ generations'[req[w].gen].status = "absent"
         /\ userLock'[req[w].user] # w
    ]_vars

\* a create request failed with 500 and the owner has a balance to debit
C6_Witness ==
  /\ last = Returned("create", "500")
  /\ \E u \in Users : token_balance[u] >= 50

\* C7: a create request for a ready style by an owner who can pay is
\* debited, creates a queued Generation, publishes one envelope and is
\* answered 201
C7_SubmitSucceeds ==
  [][\A w \in Workers :
       LET r == req[w]
           u == r.user
       IN
       /\ (Steps(w, "create", "lock_user") /\ token_balance[u] >= r.amount)
            => req'[w].pc = "publish"
       /\ (Steps(w, "create", "publish") /\ r.broker) =>
            /\ req'[w].pc = "commit"
            /\ queue'["image_generation"] =
                 Append(queue["image_generation"], GenerationEnvelope(r))
       /\ Steps(w, "create", "commit") =>
            /\ last' = Returned("create", "201")
            /\ token_balance' = [token_balance EXCEPT ![u] = @ - r.amount]
            /\ generations'[r.gen].status = "queued"
            /\ generations'[r.gen].consumed_tokens = r.amount
    ]_vars

\* C8: an inference/failed webhook for a queued Generation sets it failed,
\* clears its progress, stores the failure and refunds its cost once
C8_FailedWebhookRefunds ==
  [][\A w \in Workers :
       LET r == req[w]
           u == r.user
       IN
       /\ (Steps(w, "inference_failed", "lock_gen")
             /\ generations[r.gen].status = "queued")
            => /\ req'[w].pc = "lock_user"
               /\ req'[w].amount = generations[r.gen].consumed_tokens
       /\ Steps(w, "inference_failed", "lock_user") => req'[w].pc = "commit"
       /\ Steps(w, "inference_failed", "commit") =>
            /\ last' = Returned("inference_failed", "200")
            /\ token_balance' = [token_balance EXCEPT ![u] = @ + r.amount]
            /\ generations'[r.gen].status = "failed"
            /\ generations'[r.gen].generation_progress = "null"
            /\ generations'[r.gen].error_code # "null"
    ]_vars

\* C9: a create request by an owner whose balance is below the cost is
\* answered 402 and leaves balance, ledger, Generation rows and queue as
\* they were
C9_InsufficientRejected ==
  [][\A w \in Workers :
       (Steps(w, "create", "lock_user")
          /\ token_balance[req[w].user] < req[w].amount) =>
         /\ last' = Returned("create", "402")
         /\ req'[w] = Idle
         /\ UNCHANGED dbVars
         /\ queue' = queue
    ]_vars

\* a create request was answered 402
C9_Witness == last = Returned("create", "402")

\* C10: a message whose processing failed is never returned to a queue
C10_NoRedelivery ==
  \A q \in QueueNames :
    \A i \in 1..Len(queue[q]) : ~queue[q][i].redelivered

\* what consumer c did for the current delivery, by kind of event
Events(c, kinds) == {i \in 1..Len(trace[c]) : trace[c][i].e \in kinds}

FailureWebhooks == {"training/failed", "inference/failed"}

\* engine calls of the current delivery that failed before position i
FailedBefore(c, i) ==
  {j \in Events(c, {"engine"}) : j < i /\ ~trace[c][j].ok}

\* C11: per delivered envelope a failure webhook is sent at most once, and
\* only after all 3 attempts have failed
C11_EscalateAfterRetries ==
  \A c \in Consumers :
    /\ Cardinality(Events(c, FailureWebhooks)) <= 1
    /\ \A i \in Events(c, FailureWebhooks) :
         Cardinality(FailedBefore(c, i)) = max_attempts

\* the waits of the documented schedule, by attempt number
BackoffSchedule == <<1, 2, 4>>

C13_EventuallyDrained ==
  <>[](/\ \A q \in QueueNames : queue[q] = <<>>
       /\ \A c \in Consumers : cons[c].pc = "idle")

\* a style generation cannot use yet
NotReady(style_id) ==
  \/ styles[style_id].training_status # "completed"
  \/ styles[style_id].model_path = ""

\* the step starts a request and answers a create or leaves one in flight:
\* every step of PostGenerationWith is such a step, and it answers with the
\* outcome of the validation if that is not empty
CreateReceived ==
  /\ nextReq' = nextReq + 1
  /\ \/ last'.kind = "create" /\ req' = req
     \/ \E w \in Workers : req'[w].kind = "create" /\ req[w].kind = "none"

HandlerInvoked(w, endpoint) ==
  IF endpoint = "inference/failed"
  THEN req'[w].pc = "lock_gen" /\ req'[w].kind = "inference_failed"
  ELSE last'.kind = endpoint

\* the credentials a Bearer header presents: what follows the scheme
Presented(authorization) == Strip(Tail(authorization))

\* C14: with the shared secret configured, a request to a webhook endpoint is
\* answered 401 when it has no Authorization header or one that is not a
\* Bearer header, 401 when the Bearer token it presents differs from the
\* secret (whatever the source header), 403 when the token is the secret and
\* X-Request-Source is not training-server or inference-server, and is
\* handed to the handler when the token is the secret and the source is
\* recognized.
C14_GateOutcomes ==
  [][\A w \in {x \in Workers : WebhookAllowed(x)}, endpoint \in WebhookEndpoints,
       authorization \in AuthorizationHeaders, source \in RequestSources :
       (WebhookRequestWith(w, endpoint, authorization, source, 1, "r")
          /\ INTERNAL_API_TOKEN # <<>>)
       => IF ~StartsWith(authorization, "Bearer ")
          THEN last' = Returned("webhook_auth", "401")
          ELSE IF Presented(authorization) # INTERNAL_API_TOKEN
          THEN last' = Returned("webhook_auth", "401")
          ELSE IF source \notin RecognizedSources
          THEN last' = Returned("webhook_auth", "403")
          ELSE HandlerInvoked(w, endpoint)]_vars

\* the step starts a request and the middleware answers it (every step of
\* WebhookRequestWith with a refusing gate is such a step)
GateAnswered == nextReq' = nextReq + 1 /\ last'.kind = "webhook_auth"

\* C15: a request to any of the six webhook endpoints that the middleware
\* answers itself (401, 403 or 500), whatever its headers and its body,
\* leaves every style, every generation, every balance, the ledger, the
\* notifications, the queues and the requests in flight as they were.
C15_RejectedChangesNothing ==
  [][(/\ GateAnswered
      /\ \E w \in {x \in Workers : WebhookAllowed(x)},
            endpoint \in WebhookEndpoints,
            authorization \in AuthorizationHeaders,
            source \in RequestSources, body \in ClientBodies :
            /\ WebhookAuthMiddleware(<<WebhookPrefix, endpoint>>,
                                     authorization, source)
                  \in {"401", "403", "500"}
            /\ WebhookRequestWith(w, endpoint, authorization, source,
                                  body[1], body[2]))
     => /\ last'.response \in {"401", "403", "500"}
        /\ UNCHANGED <<styles, generations, token_balance, transactions,
                       notifications, queue, req>>]_vars

\* a request was refused for its source after an accepted progress update
\* had been stored, and the stored progress is still there
C15_Witness ==
  /\ last = Returned("webhook_auth", "403")
  /\ styles[1].training_progress = "r"

PersistedStatuses == {"queued", "completed", "failed"}

StyleEdges ==
  { <<"absent", "pending">>, <<"pending", "training">>,
    <<"training", "completed">>, <<"training", "failed">> }

Published(w) ==
  queue'["model_training"] =
    Append(queue["model_training"], TrainingEnvelope(req[w]))

\* C18: submitting a style inserts the row with training_status pending and
\* touches neither balances nor ledger; the dispatch that follows leaves the
\* row in place and the ledger alone, and either publishes the envelope, sets
\* training_status to training and answers 201, or publishes nothing, leaves
\* training_status pending and answers 201 with a warning.
C18_FailOpen ==
  [][\A w \in Workers :
       /\ (PostStyle(w) /\ req'[w].kind = "style_create")
            => /\ styles[req'[w].style].training_status = "absent"
               /\ styles'[req'[w].style].training_status = "pending"
               /\ UNCHANGED <<token_balance, transactions, queue>>
       /\ SendTrainingTask(w)
            => /\ UNCHANGED <<token_balance, transactions>>
               /\ styles[req[w].style].training_status = "pending"
               /\ IF Published(w)
                  THEN /\ styles'[req[w].style].training_status = "training"
                       /\ last' = Returned("style_create", "201")
                  ELSE /\ queue' = queue
                       /\ styles'[req[w].style].training_status = "pending"
                       /\ last' = Returned("style_create", "201 warning")]_vars

\* a style was submitted while the broker was down: the row is there, pending,
\* nothing is queued and the response carried the warning
C18_Witness ==
  /\ styles[4].training_status = "pending"
  /\ queue["model_training"] = <<>>
  /\ last = Returned("style_create", "201 warning")

\* C20: an inference/complete webhook of the inference worker for an existing
\* Generation, with a result location, leaves the row completed with that
\* result location and no progress, and changes no balance and no ledger row.
C20_CompleteWebhook ==
  [][\A w \in {x \in Workers : WebhookAllowed(x)}, g \in GenIds :
       (WebhookRequestWith(w, "inference/complete", WorkerAuthorization,
                           "inference-server", g, "r")
          /\ GenerationExists(g))
       => /\ generations'[g].status = "completed"
          /\ generations'[g].result_url = "r"
          /\ generations'[g].generation_progress = "null"
          /\ UNCHANGED <<token_balance, transactions>>]_vars

\* C21: a delivered message that parses and whose type is not the task type
\* of the consumer is acknowledged at once: the engine is not called, no
\* webhook is sent, the message is not put back on any queue, and the
\* consumer is free for the next delivery.
C21_UnknownTypeDropped ==
  [][\A c \in Consumers :
       (/\ cons[c].pc = "on_message"
        /\ cons[c].msg.type \notin {QueueOf(c), "not_json"}
        /\ cons'[c] # cons[c])
       => /\ cons'[c] = Waiting
          /\ trace'[c] = <<Ev("ack", 0, TRUE)>>
          /\ queue' = queue]_vars

\* the inference consumer acknowledged a message without an engine call
\* (it acknowledges nothing else that way: a body that is not JSON is nacked)
C21_Witness ==
  /\ cons["inference"] = Waiting
  /\ trace["inference"] = <<Ev("ack", 0, TRUE)>>

CompletionWebhooks == {"training/complete", "inference/complete"}

\* C22: in every delivery with a successful engine call exactly one
\* completion webhook is sent, after that call, and the message is
\* acknowledged only after the completion webhook; a delivery is never
\* acknowledged after an engine call without a completion webhook before it.
C22_CompleteThenAck ==
  \A c \in Consumers :
    LET calls == {i \in Events(c, {"engine"}) : trace[c][i].ok}
        completes == Events(c, CompletionWebhooks)
        acks == Events(c, {"ack"})
    IN
    /\ calls # {} =>
         /\ Cardinality(completes) = 1
         /\ \A i \in calls, j \in completes : i < j
    /\ \A k \in acks :
         Events(c, {"engine"}) # {} => \E j \in completes : j < k

\* a delivery succeeded on its second attempt: one completion webhook, then
\* the acknowledgement
C22_Witness ==
  \E c \in Consumers :
    /\ cons[c] = Waiting
    /\ Cardinality(Events(c, {"engine"})) = 2
    /\ \E j \in Events(c, CompletionWebhooks), k \in Events(c, {"ack"}) : j < k

\* the message is an envelope StyleViewSet.create published, first delivery
Dispatched(m) ==
  \E s \in StyleIds : m = TrainingEnvelope([Idle EXCEPT !.style = s])

\* C23: every envelope the style submission publishes on the model_training
\* queue has the type model_training, a style id and a non-empty list of
\* images where the training consumer reads them, so when it is delivered the
\* training consumer goes on to its first engine call.
C23_TrainingEnvelopeAgreed ==
  [][(/\ cons["training"].pc = "on_message"
      /\ Dispatched(cons["training"].msg)
      /\ cons'["training"] # cons["training"])
     => /\ cons["training"].msg.type = QueueOf("training")
        /\ ~TrainingDataRejected(cons["training"].msg.data)
        /\ cons'["training"].pc = "attempt"]_vars

\* the ledger row of a refund of the cost of Generation g to its owner
RefundRow(g) ==
  [sender |-> 0, receiver |-> generations[g].user,
   amount |-> generations[g].consumed_tokens,
   transaction_type |-> "generation", status |-> "completed",
   related_generation |-> g, refunded |-> TRUE,
   memo |-> Reason("inference_failed")]

\* C24: every inference/failed webhook for an existing Generation, the first
\* as well as a repeated one and whatever the status of the row, is accepted
\* and credits the cost of the job to its owner once more: it is answered
\* 200, adds one more refund row for the job to the ledger and raises the
\* balance by the cost (so k such webhooks leave k refund rows and k * cost).
C24_EveryFailedWebhookRefunds ==
  [][\A w \in Workers :
       (/\ req[w].kind = "inference_failed"
        /\ req'[w] = Idle
        /\ GenerationExists(req[w].gen))
       => LET g == req[w].gen
              u == generations[g].user
          IN
          /\ last' = Returned("inference_failed", "200")
          /\ transactions' = transactions (+) SetToBag({RefundRow(g)})
          /\ token_balance' =
               [token_balance EXCEPT ![u] = @ + generations[g].consumed_tokens]
    ]_vars

ProgressEndpoints == {"training/progress", "inference/progress"}

\* the step starts a request and answers it 200 in the name of a progress
\* handler (every accepted progress webhook is such a step)
ProgressAccepted ==
  /\ nextReq' = nextReq + 1
  /\ last'.kind \in ProgressEndpoints
  /\ last'.response = "200"

\* C25: an accepted progress webhook stores the supplied payload in the
\* progress field of the one row it names and changes nothing else: every
\* status, model_path and result_url, every other row, the balances, the
\* ledger, the notifications and the queues are as before; and handling the
\* same request again in the state it leaves gives the same state.
C25_ProgressOnly ==
  [][ProgressAccepted =>
       \A w \in {x \in Workers : WebhookAllowed(x)},
          endpoint \in ProgressEndpoints, id \in StyleIds \cup GenIds,
          payload \in Payloads :
          (/\ id \in WebhookIds(endpoint)
           /\ WebhookRequestWith(w, endpoint, WorkerAuthorization,
                                 WorkerSource(endpoint), id, payload)
           /\ last' = Returned(endpoint, "200"))
          => /\ IF endpoint = "training/progress"
                THEN /\ styles' = [styles EXCEPT ![id].training_progress =
                                     ProgressData(payload)]
                     /\ generations' = generations
                ELSE /\ generations' =
                          [generations EXCEPT ![id].generation_progress =
                             ProgressData(payload)]
                     /\ styles' = styles
             /\ Handle(endpoint, id, payload)' = Outcome("200")'
             /\ UNCHANGED <<token_balance, transactions, notifications,
                            queue, req, genSeq, credited, debited>>]_vars

\* two requests were made, the last an accepted training/progress without a
\* payload, and the completed style it named is still completed with its
\* model
C25_Witness ==
  /\ nextReq = 3
  /\ last = Returned("training/progress", "200")
  /\ styles[1] = [SeededStyle(1) EXCEPT !.training_progress = "{}"]

TerminalStatuses == {"completed", "failed"}

\* C26: a progress webhook of a worker for a style or a Generation whose
\* stored status is completed or failed is applied like any other: it is
\* answered 200, the status stays, and the progress field of the terminal
\* row holds the payload, not null.
C26_ProgressOnTerminalApplied ==
  [][(nextReq' = nextReq + 1 /\ last'.kind \in ProgressEndpoints) =>
       \A w \in {x \in Workers : WebhookAllowed(x)}, payload \in Payloads :
         /\ \A s \in {t \in WebhookIds("training/progress") \ {0} :
                        styles[t].training_status \in TerminalStatuses} :
              WebhookRequestWith(w, "training/progress", WorkerAuthorization,
                                 "training-server", s, payload)
              => /\ last' = Returned("training/progress", "200")
                 /\ styles'[s].training_status = styles[s].training_status
                 /\ styles'[s].training_progress = ProgressData(payload)
                 /\ styles'[s].training_progress # "null"
         /\ \A g \in {x \in GenIds :
                        generations[x].status \in TerminalStatuses} :
              WebhookRequestWith(w, "inference/progress", WorkerAuthorization,
                                 "inference-server", g, payload)
              => /\ last' = Returned("inference/progress", "200")
                 /\ generations'[g].status = generations[g].status
                 /\ generations'[g].generation_progress = ProgressData(payload)
                 /\ generations'[g].generation_progress # "null"]_vars

\* an inference/progress webhook was accepted for a completed Generation,
\* which is still completed, keeps its result and now carries progress
C26_Witness ==
  /\ last = Returned("inference/progress", "200")
  /\ \E g \in GenIds :
       /\ generations[g].status = "completed"
       /\ generations[g].result_url # "null"
       /\ generations[g].generation_progress = "r"

\* C27: during an engine execution a progress webhook is sent only for a
\* step whose integer progress percent is one of the milestones 0, 25, 50,
\* 75, 90, and no more progress webhooks are sent than there are milestones,
\* whatever the number of steps.
C27_ProgressThrottled ==
  /\ execution.percents \subseteq milestones
  /\ execution.sent <= Cardinality(milestones)

\* the step answers a call of this kind or leaves it in flight with these
\* arguments (every step of CallTokenServiceWith does one of the two)
CallAnswered(w, kind, u, a) ==
  \/ last'.kind = kind /\ req' = req
  \/ req'[w].kind = kind /\ req'[w].user = u /\ req'[w].amount = a

\* C28: a call of add_tokens, consume_tokens or refund_tokens with an amount
\* of zero or less returns ValueError in the step that receives it: no row
\* lock is taken, no request is left in flight, and the balances, the ledger
\* and the sums credited and debited are as before.
C28_NonPositiveRejected ==
  [][nextReq' = nextReq + 1 =>
       \A w \in {x \in Workers : CallAllowed(x)}, kind \in Direct,
          u \in Users :
          \A a \in {x \in Amounts[kind] : x <= 0} :
            (/\ CallAnswered(w, kind, u, a)
             /\ CallTokenServiceWith(w, kind, u, a))
            => /\ last' = Returned(kind, "ValueError")
               /\ UNCHANGED <<token_balance, transactions, userLock, req,
                              credited, debited>>]_vars

\* a refund of a non-positive amount was refused on a ledger that holds a
\* credit, and nothing is in flight
C28_Witness ==
  /\ last = Returned("refund_tokens", "ValueError")
  /\ \A w \in Workers : Free(w)
  /\ \E u \in Users : token_balance[u] = WelcomeBonus /\ credited[u] = WelcomeBonus

\* the ledger rows of the welcome bonus of u, with multiplicity
BonusRows(u) == CopiesIn(WelcomeBonusRow(u), transactions)

EntriesOf(u) ==
  [e \in {x \in BagToSet(transactions) : x.receiver = u \/ x.sender = u} |->
     CopiesIn(e, transactions)]

\* the operation of handler w waits for, or has, the row of its account
Operating(w) == req[w].pc \in {"lock_user", "commit"}

\* C30: a step of a ledger operation on account A leaves the balance and
\* the ledger entries of every other account B unchanged, and the operation
\* can take its next step whenever no other operation holds the row of A,
\* whatever rows of other accounts are locked: it waits only while another
\* operation holds the row of its own account.
C30_AccountsIndependent ==
  /\ [][\A w \in Workers :
          (Operating(w) /\ req'[w] # req[w]) =>
            \A b \in Accounts \ {req[w].user} :
              /\ token_balance'[b] = token_balance[b]
              /\ EntriesOf(b)' = EntriesOf(b)
              /\ userLock'[b] = userLock[b]]_vars
  /\ [](\A w \in Workers :
          /\ req[w].pc = "lock_user" =>
               ((ENABLED SelectUserForUpdate(w))
                  <=> userLock[req[w].user] = 0)
          /\ req[w].pc = "commit" => ENABLED Commit(w))

\* an operation on one account has committed its entry while another
\* operation still holds the row of a different account
C30_Witness ==
  \E a, b \in Accounts, w \in Workers :
    /\ a # b
    /\ req[w].pc = "commit" /\ req[w].user = b /\ userLock[b] = w
    /\ userLock[a] = 0
    /\ last = Returned("add_tokens", "ok")
    /\ [WelcomeBonusRow(a) EXCEPT !.memo = Reason("add_tokens")]
         \in BagToSet(transactions)
    /\ token_balance[b] = credited[b]

\* C36: the existence check of the welcome bonus and the credit are separate
\* steps: a call that finds no committed bonus row goes on to add_tokens even
\* while another call for the same account is between its check and its
\* commit, and the commit of each such credit adds one more bonus row and the
\* bonus amount without looking at the ledger again, so two concurrent calls
\* leave two bonus rows and twice the bonus.
C36_BonusRace ==
  [][\A w \in Workers, u \in Users :
       req[w].user = u =>
         /\ (Steps(w, "welcome_bonus", "check_bonus") /\ BonusRows(u) = 0)
              => req'[w].pc = "lock_user"
         /\ (Steps(w, "add_tokens", "commit") /\ req[w].memo = BonusReason)
              => /\ BonusRows(u)' = BonusRows(u) + 1
                 /\ token_balance'[u] = token_balance[u] + WelcomeBonus]_vars

\* both calls have returned: two bonus rows and twice the bonus
C36_Witness ==
  /\ \A w \in Workers : Free(w)
  /\ \E u \in Users :
       /\ BonusRows(u) = 2
       /\ token_balance[u] = 2 * WelcomeBonus
       /\ BagCardinality(transactions) = 2

\* C39: one get_channel call makes at most 3 connection attempts; when every
\* attempt raised a connection error the call raises it after exactly the
\* third; a call that finds the connection open yields it without a new
\* attempt; and on a new service object, consecutive successful publishes
\* have created exactly one connection.
C39_ChannelRetries ==
  /\ [](/\ rabbitmq.attempts <= max_retries
        /\ (rabbitmq.result = "AMQPConnectionError" /\ ~rabbitmq.thrown)
             => /\ rabbitmq.attempts = max_retries
                /\ rabbitmq.pc = "idle"
                /\ rabbitmq.connection = "none"
        /\ (rabbitmq.clean /\ rabbitmq.publishes >= 1)
             => rabbitmq.created = 1 /\ rabbitmq.connection = "open")
  /\ [][(rabbitmq.pc = "loop" /\ rabbitmq.connection = "open")
          => /\ rabbitmq'.pc = "body"
             /\ rabbitmq'.attempts = rabbitmq.attempts
             /\ rabbitmq'.created = rabbitmq.created]_vars

\* three publishes in a row on one connection
C39_Witness ==
  /\ rabbitmq.publishes = MaxPublishes
  /\ rabbitmq.created = 1
  /\ rabbitmq.result = "published"

\* the webhooks a consumer sends
WorkerWebhooks ==
  {"training/complete", "training/failed", "inference/complete",
   "inference/failed"}

\* C37: a model_training task without a style_id or without images makes
\* process_training_task return failure at once: the handling of the message
\* ends in that step with the disposition of a failed task, and no engine
\* call and no webhook (training/complete, training/failed) was made.
C37_RejectedTaskSilent ==
  [][LET c == "training"
         m == cons[c].msg
     IN
     (/\ cons[c].pc = "on_message"
      /\ m.type = "model_training"
      /\ (m.data.style_id = 0 \/ m.data.images = 0)
      /\ cons'[c] # cons[c])
     => /\ cons'[c] = Waiting
        /\ \A i \in 1..Len(trace'[c]) :
             trace'[c][i].e \notin WorkerWebhooks \cup {"engine"}
        /\ trace'[c] = <<Ev(FailedDisposition(c), 0, TRUE)>>]_vars

\* a task with a style id and without images was rejected and handed back
C37_Witness ==
  /\ cons["training"] = Waiting
  /\ trace["training"] = <<Ev("nack_requeue", 0, TRUE)>>
  /\ queue["model_training"] # <<>>
  /\ Head(queue["model_training"]).redelivered
  /\ Head(queue["model_training"]).data.style_id = 1
  /\ Head(queue["model_training"]).data.images = 0

\* C38: a training/failed webhook of the training worker for an existing
\* style leaves the style failed with no progress and adds one failure
\* notification for its owner, and changes no balance and no ledger row.
C38_TrainingFailedWebhook ==
  [][\A w \in {x \in Workers : WebhookAllowed(x)}, s \in StyleIds :
       (WebhookRequestWith(w, "training/failed", WorkerAuthorization,
                           "training-server", s, "")
          /\ StyleExists(s))
       => /\ styles'[s].training_status = "failed"
          /\ styles'[s].training_progress = "null"
          /\ notifications' =
               notifications \cup
                 {Notification(styles[s].artist, "style_training_failed", s)}
          /\ UNCHANGED <<token_balance, transactions>>]_vars

\* the refund rows the ledger holds for Generation g
RefundsOf(g) ==
  {e \in BagToSet(transactions) : e.related_generation = g /\ e.refunded}

TerminalWebhooks ==
  {"training/complete", "training/failed",
   "inference/complete", "inference/failed"}

\* C32: a webhook is posted once whether or not the post succeeds, and what
\* the consumer does next (acknowledge after a completion, back off or go on
\* to the final failure webhook after a failed attempt, settle the message
\* after the final failure webhook) does not depend on the result of the post
C32_BestEffortDelivery ==
  \A c \in Consumers : \A i \in 1..Len(trace[c]) :
    LET ev == trace[c][i] IN
    ev.e \in TerminalWebhooks =>
      /\ i < Len(trace[c])
      /\ LET nx == trace[c][i + 1] IN
         /\ ~(nx.e = ev.e /\ nx.n = ev.n)
         /\ ev.e \in {"training/complete", "inference/complete"}
              => nx.e = "ack"
         /\ (ev.e = "inference/failed" /\ ev.n < max_attempts)
              => nx = Ev("sleep", backoff_seconds(ev.n), TRUE)
         /\ (ev.e = "inference/failed" /\ ev.n = max_attempts)
              => nx = [ev EXCEPT !.n = max_attempts + 1, !.ok = nx.ok]
         /\ ev.n = max_attempts + 1 => nx.e = FailedDisposition(c)

\* a completion webhook and a final failure webhook that were not delivered,
\* each followed by the settling of its message
C32_Witness ==
  /\ \E i \in 1..Len(trace["training"]) :
       /\ trace["training"][i] = Ev("training/complete", 1, FALSE)
       /\ trace["training"][Len(trace["training"])].e = "ack"
  /\ \E i \in 1..Len(trace["inference"]) :
       /\ trace["inference"][i] = Ev("inference/failed", max_attempts + 1, FALSE)
       /\ trace["inference"][Len(trace["inference"])].e = "nack"

\* handler w holds a row lock
Holds(w) ==
  \/ \E u \in Users : userLock[u] = w
  \/ \E g \in GenIds : genLock[g] = w

\* handler w waits for a row lock another handler holds
Blocked(w) ==
  \/ req[w].pc = "lock_user" /\ userLock[req[w].user] \notin {0, w}
  \/ /\ req[w].pc = "lock_gen" /\ GenerationExists(req[w].gen)
     /\ genLock[req[w].gen] \notin {0, w}

====
